---- MODULE Spec2Model ----
(***************************************************************************)
(* The Embed layer of thinc/neural/_classes/embed.py as a state machine.   *)
(*                                                                         *)
(* Tensors are sequences of rows of integers.  An optional value (a        *)
(* dimension that may be None, a tensor that may be unallocated) is the    *)
(* empty sequence << >> when absent and the one-element sequence << x >>   *)
(* when present.  Table rows are numbered from 0 in the code and so are    *)
(* the bucket indices here; Row(t, r) reads row r of a table.              *)
(***************************************************************************)
EXTENDS Integers, Sequences, FiniteSets, TLC

VARIABLES
    is_static,   \* self.is_static
    nO,          \* self.nO
    nM,          \* self.nM   (optional)
    nV,          \* self.nV   (optional)
    W,           \* self.W         (optional, nO x nM)
    vectors,     \* self.vectors   (optional table)
    d_W,         \* self.d_W       (optional, nO x nM)
    d_vectors,   \* self.d_vectors (optional table)
    closure,     \* the finish_update closure the caller holds (optional)
    scope,       \* the use_params generator suspended at its yield (optional)
    lsuvRuns,    \* history: completed runs of do_lsuv
    inferred,    \* history: nV was assigned by _set_dimensions_if_needed
    last,        \* history: the last operation, its inputs and its outcome
    snap,        \* history: the gradients before the last finish_update, if
                 \*          that was the last operation
    steps        \* number of operations performed

vars == << is_static, nO, nM, nV, W, vectors, d_W, d_vectors, closure, scope,
           lsuvRuns, inferred, last, snap, steps >>

(***************************************************************************)
(* Bounds of the model.                                                    *)
(***************************************************************************)
MaxSteps == 3      \* operations per behaviour
MaxRows  == 2      \* largest table whose contents are modelled

\* The layers constructed: Embed(nO, nM=None, nV=None, is_static=...).
OutputDims  == {2}             \* nO
VectorDims  == {3}             \* nM, when given
BatchSizes  == {1, 2}          \* rows per batch of IDs

\* The vocabulary cap of _set_dimensions_if_needed.
VocabCap == 10000000

None == << >>
Some(x) == << x >>
Get(o) == o[1]
IsSet(o) == o # None

\* IDs a caller may pass: negative ones, small ones, and the two around the cap.
IdValues == {-1, 0, VocabCap - 2, VocabCap - 1}

\* A tensor of n rows of width m whose entries all differ: Fill(s, n, m) counts
\* up from s along the rows.  The tensors an initializer, an optimizer's
\* average, the refinement or the caller's upstream gradient may produce are
\* drawn from the fills of a few seeds.
Fill(s, n, m) == [r \in 1..n |-> [c \in 1..m |-> s + (r - 1) * m + (c - 1)]]
InitSeeds == {1, 2}       \* what an initializer may write
AltSeeds  == {0, 4}       \* what an alternate parameter buffer may hold
LsuvSeeds == {3, 6}       \* what the refinement may leave in W
GradSeeds == {1, 3}       \* what an upstream gradient may be

Batches == UNION { [1..k -> IdValues] : k \in BatchSizes }

Rows(n, m, S) == { Fill(s, n, m) : s \in S }
Zeros(n, m) == [r \in 1..n |-> [c \in 1..m |-> 0]]


(***************************************************************************)
(* Arithmetic of the array backend.                                        *)
(***************************************************************************)
RECURSIVE SumTo(_, _)
SumTo(f, n) == IF n = 0 THEN 0 ELSE f[n] + SumTo(f, n - 1)

RECURSIVE MaxTo(_, _)
MaxTo(X, n) == IF n = 1 THEN X[1]
               ELSE IF X[n] > MaxTo(X, n - 1) THEN X[n] ELSE MaxTo(X, n - 1)

\* X.max()
MaxOf(X) == MaxTo(X, Len(X))

\* a % n as Python and numpy compute it on integers: the result takes the sign
\* of the divisor; numpy yields 0 (with a warning) when the divisor is 0.
PyMod(a, n) == IF n > 0 THEN a % n
               ELSE IF n = 0 THEN 0
               ELSE 0 - ((0 - a) % (0 - n))

\* ids % self.nV
Buckets(ids, n) == [i \in 1..Len(ids) |-> PyMod(ids[i], n)]

\* ops.batch_dot(X, M): row b of the result is M applied to row b of X.
batch_dot(X, M) ==
    [b \in 1..Len(X) |->
        [o \in 1..Len(M) |->
            SumTo([m \in 1..Len(X[b]) |-> X[b][m] * M[o][m]], Len(X[b]))]]

\* ops.batch_outer(G, X): the outer products of the rows, summed over the batch.
batch_outer(G, X) ==
    [o \in 1..Len(G[1]) |->
        [m \in 1..Len(X[1]) |->
            SumTo([b \in 1..Len(G) |-> G[b][o] * X[b][m]], Len(G))]]

\* M.T
Transpose(M) == [m \in 1..Len(M[1]) |-> [o \in 1..Len(M) |-> M[o][m]]]

MatAdd(A, B) == [r \in 1..Len(A) |-> [c \in 1..Len(A[r]) |-> A[r][c] + B[r][c]]]
MatSub(A, B) == [r \in 1..Len(A) |-> [c \in 1..Len(A[r]) |-> A[r][c] - B[r][c]]]
VecAdd(a, b) == [c \in 1..Len(a) |-> a[c] + b[c]]

(***************************************************************************)
(* Tables.  A table records its number of rows and, when that number is    *)
(* at most MaxRows, its rows; the rows of a larger table are not modelled  *)
(* and the operations that read them are not taken.                        *)
(***************************************************************************)
Table(n, data) == [rows |-> n, data |-> data]
Modelled(t) == Len(t.data) = t.rows
Row(t, r) == t.data[r + 1]

\* The tables of n rows of width m over the values S.
Tables(n, m, S) == IF n <= MaxRows THEN { Table(n, d) : d \in Rows(n, m, S) }
                   ELSE { Table(n, << >>) }
ZeroTable(n, m) == IF n <= MaxRows THEN Table(n, Zeros(n, m)) ELSE Table(n, << >>)

(***************************************************************************)
(* History records.                                                        *)
(***************************************************************************)
\* The record of an operation; an operation fills the fields it has.
Op(name) == [op |-> name, raised |-> FALSE, max |-> None, idx |-> None,
             gradients |-> << >>, sgd |-> "none", written |-> None,
             backup |-> None, alt |-> None, repeat |-> FALSE]

\* self._mem.weights: the parameters of the store.
Weights == [W |-> W, vectors |-> vectors]

Accumulators == [d_W |-> d_W, d_vectors |-> d_vectors]

Record(l) == /\ last' = l
             /\ snap' = IF l.op = "finish_update" THEN Some(Accumulators) ELSE None
             /\ steps' = steps + 1

\* The suspended use_params generator notices nothing; the model notes in its
\* frame whether the block has had the parameters written.
ScopeSees(newW, newVectors) ==
    scope' = IF scope = None THEN None
             ELSE Some([Get(scope) EXCEPT
                        !.touched = @ \/ newW # W \/ newVectors # vectors])

(***************************************************************************)
(* Allocation: once every dimension is known the four tensors exist, the   *)
(* parameters filled by their initializers and the gradients with zeros.   *)
(* A table cannot be allocated with a negative number of rows.             *)
(***************************************************************************)
CanAllocate(nm, nv) == IsSet(nm) /\ IsSet(nv) /\ Get(nv) >= 0

InitialW(no, nm) == Rows(no, nm, InitSeeds)
InitialVectors(nv, nm) == Tables(nv, nm, InitSeeds)

Init ==
    /\ is_static \in BOOLEAN
    /\ nO \in OutputDims
    /\ nM \in {None} \cup { Some(m) : m \in VectorDims }
    /\ nV \in {None, Some(MaxRows)}
    /\ IF CanAllocate(nM, nV)
       THEN /\ W \in { Some(w) : w \in InitialW(nO, Get(nM)) }
            /\ vectors \in { Some(t) : t \in InitialVectors(Get(nV), Get(nM)) }
            /\ d_W = Some(Zeros(nO, Get(nM)))
            /\ d_vectors = Some(ZeroTable(Get(nV), Get(nM)))
       ELSE /\ W = None
            /\ vectors = None
            /\ d_W = None
            /\ d_vectors = None
    /\ closure = None
    /\ scope = None
    /\ lsuvRuns = 0
    /\ inferred = FALSE
    /\ last = Op("init")
    /\ snap = None
    /\ steps = 0

(***************************************************************************)
(* The on-data hooks.                                                      *)
(***************************************************************************)
\* _set_dimensions_if_needed as it would be without its test of model.nV.
SetDimensions_Reassigns(nv, X) ==
    LET max_id == MaxOf(X) + 1
    IN  IF max_id >= VocabCap
        THEN [raised |-> TRUE, nV |-> nv]
        ELSE [raised |-> FALSE, nV |-> Some(max_id)]

\* _set_dimensions_if_needed as it would be with > for >= at the cap.
SetDimensions_OffByOne(nv, X) ==
    IF nv = None
    THEN LET max_id == MaxOf(X) + 1
         IN  IF max_id > VocabCap
             THEN [raised |-> TRUE, nV |-> nv]
             ELSE [raised |-> FALSE, nV |-> Some(max_id)]
    ELSE [raised |-> FALSE, nV |-> nv]

\* _set_dimensions_if_needed(model, X): the outcome for a layer whose nV is nv.
SetDimensions(nv, X) ==
    IF nv = None
    THEN LET max_id == MaxOf(X) + 1
         IN  IF max_id >= VocabCap
             THEN [raised |-> TRUE, nV |-> nv]
             ELSE [raised |-> FALSE, nV |-> Some(max_id)]
    ELSE [raised |-> FALSE, nV |-> nv]

\* LSUVinit(model, X) refines when both parameters exist.
LsuvApplies(vecs, w) == vecs # None /\ w # None

\* do_lsuv(ops, W, model, X): the sample forward pass fails on an empty table;
\* otherwise W is left orthonormalised and rescaled.
LsuvOutcomes(w, vecs) ==
    IF Get(vecs).rows = 0 THEN { [raised |-> TRUE, W |-> w] }
    ELSE { [raised |-> FALSE, W |-> Some(r)]
             : r \in Rows(Len(Get(w)), Len(Get(w)[1]), LsuvSeeds) }

\* Model.begin_training(X): the hooks in their declared order,
\* _set_dimensions_if_needed then LSUVinit, the tensors allocated in between.
OnData(X) ==
    LET dim == SetDimensions(nV, X)
    IN
    /\ steps < MaxSteps
    /\ IF dim.raised
       THEN /\ UNCHANGED << nV, W, vectors, d_W, d_vectors, lsuvRuns, inferred,
                            scope >>
            /\ Record([Op("on_data") EXCEPT !.raised = TRUE, !.max = Some(MaxOf(X))])
       ELSE /\ nV' = dim.nV
            /\ inferred' = (inferred \/ nV = None)
            /\ \E w0 \in IF W # None THEN {W}
                         ELSE IF CanAllocate(nM, dim.nV)
                              THEN { Some(w) : w \in InitialW(nO, Get(nM)) }
                              ELSE {None},
                  v0 \in IF W # None THEN {vectors}
                         ELSE IF CanAllocate(nM, dim.nV)
                              THEN { Some(t) : t \in
                                       InitialVectors(Get(dim.nV), Get(nM)) }
                              ELSE {None} :
                 /\ vectors' = v0
                 /\ d_W' = IF W # None \/ w0 = None THEN d_W
                           ELSE Some(Zeros(nO, Get(nM)))
                 /\ d_vectors' = IF W # None \/ w0 = None THEN d_vectors
                                 ELSE Some(ZeroTable(Get(dim.nV), Get(nM)))
                 /\ IF LsuvApplies(v0, w0)
                    THEN \E out \in LsuvOutcomes(w0, v0) :
                           /\ W' = out.W
                           /\ lsuvRuns' = IF out.raised THEN lsuvRuns
                                          ELSE lsuvRuns + 1
                           /\ Record([Op("on_data") EXCEPT
                                !.raised = out.raised, !.max = Some(MaxOf(X)),
                                !.idx = IF out.raised
                                        THEN Some(Buckets(X, Get(dim.nV)))
                                        ELSE None])
                    ELSE /\ W' = w0
                         /\ lsuvRuns' = lsuvRuns
                         \* a table of negative size fails to allocate
                         /\ Record([Op("on_data") EXCEPT
                              !.raised = (IsSet(nM) /\ Get(dim.nV) < 0),
                              !.max = Some(MaxOf(X))])
                 /\ ScopeSees(W', v0)
    /\ UNCHANGED << is_static, nO, nM, closure >>

(***************************************************************************)
(* Forward pass.                                                           *)
(***************************************************************************)
\* An index numpy accepts for a table of n rows.
ValidIndex(i, n) == 0 - n <= i /\ i < n

\* vectors[idx]: the rows gathered, a negative index counting from the end.
Gather(t, idx) ==
    [i \in 1..Len(idx) |-> Row(t, IF idx[i] < 0 THEN idx[i] + t.rows ELSE idx[i])]

\* Embed._embed(ids): the buckets computed and, unless one of them is no row of
\* the table, the rows looked up.
Embed(ids) ==
    LET idx == Buckets(ids, Get(nV))
        ok  == \A i \in 1..Len(idx) : ValidIndex(idx[i], Get(vectors).rows)
    IN  [raised |-> ~ok, idx |-> idx,
         vectors |-> IF ok THEN Gather(Get(vectors), idx) ELSE << >>]

\* Embed.predict(ids)
Predict(ids) ==
    /\ steps < MaxSteps
    /\ vectors # None => Modelled(Get(vectors))
    /\ IF vectors = None
       THEN Record([Op("predict") EXCEPT !.raised = TRUE])
       ELSE Record([Op("predict") EXCEPT !.raised = Embed(ids).raised])
    /\ UNCHANGED << is_static, nO, nM, nV, W, vectors, d_W, d_vectors, closure,
                    scope, lsuvRuns, inferred >>

\* Embed.begin_update(ids): the forward pass; the caller is handed finish_update,
\* which has captured ids and the rows looked up.
BeginUpdate(ids) ==
    /\ steps < MaxSteps
    /\ vectors # None => Modelled(Get(vectors))
    /\ IF vectors = None
       THEN /\ Record([Op("begin_update") EXCEPT !.raised = TRUE])
            /\ UNCHANGED closure
       ELSE LET e == Embed(ids)
            IN  /\ Record([Op("begin_update") EXCEPT
                     !.raised = e.raised, !.idx = Some(e.idx)])
                /\ closure' = IF e.raised THEN closure
                              ELSE Some([ids |-> ids, vectors |-> e.vectors])
    /\ UNCHANGED << is_static, nO, nM, nV, W, vectors, d_W, d_vectors, scope,
                    lsuvRuns, inferred >>

(***************************************************************************)
(* Backward pass.                                                          *)
(***************************************************************************)
\* The last position of the batch that falls in bucket r, 0 if none does.
LastAt(idx, r) ==
    LET hits == { i \in 1..Len(idx) : idx[i] = r }
    IN  IF hits = {} THEN 0 ELSE CHOOSE i \in hits : \A j \in hits : j <= i

\* d_vectors[idx] += g: numpy gathers d_vectors[idx], adds g and assigns the
\* sums back row by row, so a bucket hit more than once keeps the last sum.
ScatterAdd(t, idx, g) ==
    Table(t.rows,
          [r \in 1..t.rows |->
              IF LastAt(idx, r - 1) = 0 THEN t.data[r]
              ELSE VecAdd(t.data[r], g[LastAt(idx, r - 1)])])

\* The update of d_W as it would be with = for +=.
AccumulateW_Overwrites(dW, gradients, vecs) == batch_outer(gradients, vecs)

\* self.d_W += self.ops.batch_outer(gradients, vectors)
AccumulateW(dW, gradients, vecs) == MatAdd(dW, batch_outer(gradients, vecs))

\* finish_update as it would be without its test of self.is_static.
UpdatesTable_Always(static) == TRUE

\* if not self.is_static: the table receives gradient unless the layer is static.
UpdatesTable(static) == ~static

\* finish_update lines 96-99: a static layer hands the optimizer W.flatten() and
\* d_W.flatten(), which are copies; otherwise the optimizer is handed the
\* store's own buffers.
PassesStore(static) == ~static

\* The optimizer callbacks: none, a gradient step that writes its weights
\* argument in place, and one that also zeroes its gradient argument.
Optimizers == {"none", "step", "step_zero"}

TableSub(t, g) == Table(t.rows, MatSub(t.data, g.data))

\* What sgd writes into the weights it is handed.
SgdWrites(w, g) == MatSub(w, g)

\* finish_update(gradients, sgd) of the closure the caller holds.
FinishUpdate(gradients, sgd) ==
    LET c   == Get(closure)
        dW1 == AccumulateW(Get(d_W), gradients, c.vectors)
        dV1 == IF UpdatesTable(is_static)
               THEN ScatterAdd(Get(d_vectors), Buckets(c.ids, Get(nV)),
                               batch_dot(gradients, Transpose(Get(W))))
               ELSE Get(d_vectors)
        store == PassesStore(is_static)
        wW  == SgdWrites(Get(W), dW1)
        wV  == TableSub(Get(vectors), dV1)
    IN
    /\ steps < MaxSteps
    /\ closure # None
    /\ IF sgd = "none"
       THEN /\ d_W' = Some(dW1)
            /\ d_vectors' = Some(dV1)
            /\ UNCHANGED << W, vectors >>
            /\ Record([Op("finish_update") EXCEPT
                 !.gradients = gradients,
                 !.repeat = /\ last.op = "finish_update"
                            /\ last.sgd = "none"
                            /\ last.gradients = gradients])
       ELSE /\ W' = IF store THEN Some(wW) ELSE W
            /\ vectors' = IF store THEN Some(wV) ELSE vectors
            /\ d_W' = IF store /\ sgd = "step_zero"
                      THEN Some(Zeros(nO, Get(nM))) ELSE Some(dW1)
            /\ d_vectors' = IF store /\ sgd = "step_zero"
                            THEN Some(ZeroTable(Get(nV), Get(nM))) ELSE Some(dV1)
            /\ Record([Op("finish_update") EXCEPT
                 !.gradients = gradients, !.sgd = sgd,
                 !.written = Some([W |-> Some(wW),
                                   vectors |-> IF store THEN Some(wV)
                                               ELSE vectors])])
    /\ ScopeSees(W', vectors')
    /\ UNCHANGED << is_static, nO, nM, nV, closure, lsuvRuns, inferred >>

(***************************************************************************)
(* Embed.use_params(params), a generator-based context manager.  Entering  *)
(* runs the generator to its yield; leaving the block normally resumes it  *)
(* after the yield; an error raised in the block is thrown into it at the  *)
(* yield, which no handler encloses, so it ends there.                     *)
(***************************************************************************)
\* The alternate buffers params may hold for this store: of the store's shape.
AltBuffers ==
    { [W |-> Some(Fill(s, nO, Get(nM))),
       vectors |-> Some(Table(Get(vectors).rows,
                              Fill(s + 5, Get(vectors).rows, Get(nM))))] :
        s \in AltSeeds }

\* with self.use_params(params): up to the yield.  Without a key for this store
\* params holds nothing the layer reads.  params holds a buffer for this store
\* only once the store has parameters, which an optimizer has been handed; the
\* scope is not entered again from inside its own block.
UseParamsEnter ==
    /\ steps < MaxSteps
    /\ scope = None
    /\ \/ /\ is_static
          /\ scope' = Some([backup |-> None, alt |-> None, touched |-> FALSE])
          /\ UNCHANGED << W, vectors >>
          /\ Record(Op("use_params"))
       \/ /\ ~is_static
          /\ scope' = Some([backup |-> None, alt |-> None, touched |-> FALSE])
          /\ UNCHANGED << W, vectors >>
          /\ Record(Op("use_params"))
       \/ /\ ~is_static
          /\ W # None
          /\ Modelled(Get(vectors))
          /\ \E param \in AltBuffers :
                /\ scope' = Some([backup |-> Some(Weights), alt |-> Some(param),
                                  touched |-> FALSE])
                /\ W' = param.W
                /\ vectors' = param.vectors
                /\ Record([Op("use_params") EXCEPT
                     !.backup = Some(Weights), !.alt = Some(param)])
    /\ UNCHANGED << is_static, nO, nM, nV, d_W, d_vectors, closure, lsuvRuns,
                    inferred >>

\* use_params as it would be without the lines after its yield.
AfterYield_NoRestore(frame, raised) == Weights

\* The generator resumed after its yield, or ended at it by the block's error.
AfterYield(frame, raised) ==
    IF frame.backup # None /\ ~raised THEN Get(frame.backup) ELSE Weights

\* Leaving the block, normally or by an error raised in it.
UseParamsExit(raised) ==
    /\ steps < MaxSteps
    /\ scope # None
    /\ LET frame == Get(scope)
           w == AfterYield(frame, raised)
       IN  /\ W' = w.W
           /\ vectors' = w.vectors
           /\ Record([Op("use_params_exit") EXCEPT
                !.raised = raised, !.backup = frame.backup, !.alt = frame.alt])
    /\ scope' = None
    /\ UNCHANGED << is_static, nO, nM, nV, d_W, d_vectors, closure, lsuvRuns,
                    inferred >>

Next ==
    \/ \E X \in Batches : OnData(X)
    \/ \E ids \in Batches : Predict(ids)
    \/ \E ids \in Batches : BeginUpdate(ids)
    \/ \E sgd \in Optimizers :
         \E g \in IF closure = None THEN {}
                  ELSE Rows(Len(Get(closure).ids), nO, GradSeeds) :
            FinishUpdate(g, sgd)
    \/ UseParamsEnter
    \/ \E raised \in BOOLEAN : UseParamsExit(raised)

Spec == Init /\ [][Next]_vars

(***************************************************************************)
(* Properties.                                                             *)
(***************************************************************************)
\* C1: for a non-static layer whose store is a key of params, after the
\* use_params scope has been left by an error raised in the block, the weight
\* buffer equals its value before the scope.
C1_RestoredOnError ==
    (last.op = "use_params_exit" /\ last.raised /\ last.backup # None)
        => Weights = Get(last.backup)

\* C2: for a non-static layer whose store is a key of params, the weight
\* buffer equals params[key] in the block of use_params (as long as the block
\* itself has not had the parameters written), and after the block has exited
\* normally it equals the value it had before entry, whatever the block did.
C2_SwapRoundTrip ==
    /\ (scope # None /\ Get(scope).backup # None /\ ~Get(scope).touched)
          => Weights = Get(Get(scope).alt)
    /\ (last.op = "use_params_exit" /\ ~last.raised /\ last.backup # None)
          => Weights = Get(last.backup)

\* A scope has been entered with a key and left normally, and the value put
\* back is another than the one that was swapped in.
C2_Witness ==
    /\ last.op = "use_params_exit"
    /\ ~last.raised
    /\ last.backup # None
    /\ Get(last.backup) # Get(last.alt)

\* The sum of the rows of g whose position in the batch falls in bucket r,
\* added to row.
RECURSIVE AddHits(_, _, _, _, _)
AddHits(row, idx, g, r, n) ==
    IF n = 0 THEN row
    ELSE AddHits(IF idx[n] = r THEN VecAdd(row, g[n]) ELSE row, idx, g, r, n - 1)

\* C3: finish_update on a non-static layer adds to each row of d_vectors the sum
\* of the gradients of all the rows of the batch that map to that bucket.
C3_DuplicatesAccumulate ==
    [][(last'.op = "finish_update" /\ ~is_static /\ last'.sgd # "step_zero")
        => LET idx == Buckets(Get(closure).ids, Get(nV))
               g   == batch_dot(last'.gradients, Transpose(Get(W)))
               old == Get(d_vectors)
           IN  Get(d_vectors)'.data =
                 [r \in 1..old.rows |->
                    AddHits(old.data[r], idx, g, r - 1, Len(idx))]]_vars

\* C4: d_W and d_vectors are accumulators.  A finish_update that repeats the
\* one before it (same closure, same gradients, no optimizer in either) changes
\* both by what the first changed them by, and once they are allocated no
\* operation other than finish_update changes them.
C4_Accumulators ==
    [][/\ (last'.op = "finish_update" /\ last'.repeat)
            => /\ MatSub(Get(d_W)', Get(d_W))
                    = MatSub(Get(d_W), Get(Get(snap).d_W))
               /\ MatSub(Get(d_vectors)'.data, Get(d_vectors).data)
                    = MatSub(Get(d_vectors).data, Get(Get(snap).d_vectors).data)
       /\ (d_W # None /\ last'.op # "finish_update")
            => (d_W' = d_W /\ d_vectors' = d_vectors)]_vars

\* finish_update has been called twice in a row with the same gradients and no
\* optimizer, and the second call changed d_W.
C4_Witness ==
    /\ last.op = "finish_update"
    /\ last.repeat
    /\ d_W # Get(snap).d_W

\* C5: on a static layer begin_update and finish_update, with or without an
\* optimizer, leave vectors and d_vectors as they were, and every finish_update
\* adds batch_outer(gradients, looked-up vectors) to d_W.
C5_StaticFreeze ==
    [][(is_static /\ last'.op \in {"begin_update", "finish_update"})
        => /\ vectors' = vectors
           /\ d_vectors' = d_vectors
           /\ last'.op = "finish_update"
                => Get(d_W)' = MatAdd(Get(d_W),
                                      batch_outer(last'.gradients,
                                                  Get(closure).vectors))]_vars

\* A static layer has run finish_update with an optimizer, and d_W holds
\* gradient.
C5_Witness ==
    /\ is_static
    /\ last.op = "finish_update"
    /\ last.sgd = "step_zero"
    /\ d_W # Some(Zeros(nO, Get(nM)))

\* C6: nV is written once.  On a layer with nV unset a batch of maximum m below
\* the cap sets nV = m + 1, nothing else sets it, and once set no operation
\* changes it.
C6_WriteOnce ==
    [][/\ nV # None => nV' = nV
       /\ (nV = None /\ nV' # None)
            => (last'.op = "on_data" /\ Get(nV') = Get(last'.max) + 1)
       /\ (nV = None /\ last'.op = "on_data"
             /\ Get(last'.max) + 1 < VocabCap)
            => nV' = Some(Get(last'.max) + 1)]_vars

\* The hooks have run on a layer whose inferred nV is smaller than the batch
\* calls for.
C6_Witness ==
    /\ inferred
    /\ last.op = "on_data"
    /\ ~last.raised
    /\ Get(last.max) + 1 > Get(nV)

\* C7: on a layer with nV unset a batch with max + 1 >= 10,000,000 makes the
\* hooks fail and leaves the layer as it was: nV unset, W and vectors
\* unallocated, the refinement not run.  A batch with max + 1 = 9,999,999 is
\* accepted.
C7_Cap ==
    [][(nV = None /\ last'.op = "on_data")
        => IF Get(last'.max) + 1 >= VocabCap
           THEN /\ last'.raised
                /\ nV' = None /\ W' = None /\ vectors' = None
                /\ UNCHANGED << d_W, d_vectors, lsuvRuns, closure, scope,
                                W, vectors, inferred >>
           ELSE /\ nV' = Some(Get(last'.max) + 1)
                /\ Get(last'.max) + 1 = VocabCap - 1 => ~last'.raised]_vars

\* The hooks have rejected a batch.
C7_Witness ==
    /\ last.op = "on_data"
    /\ last.raised
    /\ nV = None
    /\ Get(last.max) + 1 >= VocabCap

\* C8: every bucket index computed by _embed is a row of the table, 0..nV-1,
\* and an nV inferred from a batch is at least 1.
C8_ValidRowIndex ==
    /\ inferred => Get(nV) >= 1
    /\ last.idx # None
         => \A i \in 1..Len(Get(last.idx)) :
               Get(last.idx)[i] \in 0..(Get(nV) - 1)

\* C9: the refinement runs at most once: once it has run, a later run of the
\* hooks leaves W as it is; and it runs only when vectors and W exist.
C9_RefinesOnce ==
    [][/\ (lsuvRuns >= 1 /\ last'.op = "on_data")
            => (W' = W /\ lsuvRuns' = lsuvRuns)
       /\ lsuvRuns' > lsuvRuns => (W' # None /\ vectors' # None)]_vars

\* C10: after finish_update with an optimizer that writes its weights argument
\* in place, W (and vectors, unless the layer is static) holds what the
\* optimizer wrote.
C10_OptimizerWritesLayer ==
    (last.op = "finish_update" /\ last.sgd # "none")
        => /\ W = Get(last.written).W
           /\ ~is_static => vectors = Get(last.written).vectors

====
